---- MODULE Spec2Model ----
(***************************************************************************)
(* A model of lisa's Node (src/lisa/node.py): the connection descriptor,   *)
(* the lazy one-shot initialization, the per-node tool registry and the    *)
(* node factories.  The sequential specification Spec drives one Node from *)
(* a single execution context, one action per public operation; the        *)
(* specification SpecConc interleaves the steps of get_tool issued by      *)
(* several execution contexts on one initialized Node.                     *)
(***************************************************************************)
EXTENDS Integers, Sequences, FiniteSets, TLC

VARIABLES node, last, ctx, machine

vars == <<node, last, ctx, machine>>

(***************************************************************************)
(* Bounds of the model.                                                    *)
(***************************************************************************)
\* get_tool for a tool that is not cached is issued at most this many times
MaxMisses == 2
\* execution contexts of the concurrent specification
NumContexts == 2

\* the interpreter's recursion limit: a call nested deeper than this raises
MaxDepth == 24

(***************************************************************************)
(* Program constants.                                                      *)
(***************************************************************************)
\* set_connection_info: port: int = 22 / publicPort: int = 22
DefaultPort == 22
\* the value Python's dict.get returns for an absent key
None == 0

\* constants.ENVIRONMENTS_NODES_REMOTE / _LOCAL / TYPE and the remote fields
ENVIRONMENTS_NODES_REMOTE == "remote"
ENVIRONMENTS_NODES_LOCAL == "local"
TYPE == "type"
ENVIRONMENTS_NODES_REMOTE_ADDRESS == "address"
ENVIRONMENTS_NODES_REMOTE_PORT == "port"
ENVIRONMENTS_NODES_REMOTE_PUBLIC_ADDRESS == "publicAddress"
ENVIRONMENTS_NODES_REMOTE_PUBLIC_PORT == "publicPort"
PATH_REMOTE_ROOT == "lisa_working"

(***************************************************************************)
(* Strings whose content the code inspects are sequences of characters.    *)
(***************************************************************************)
Linux == <<"L", "i", "n", "u", "x">>
GnuLinux == <<"G", "N", "U", "/", "L", "i", "n", "u", "x">>
Msys == <<"M", "s", "y", "s">>
EmptyStr == <<>>

\* Python's  sub in s  on strings
Contains(sub, s) ==
    \E i \in 0..(Len(s) - Len(sub)) :
        \A j \in 1..Len(sub) : s[i + j] = sub[j]

(***************************************************************************)
(* Results of a call: the node afterwards, the exception raised ("none"    *)
(* when the call returned) and the value returned.                         *)
(***************************************************************************)
R(n, err, ret) == [n |-> n, err |-> err, ret |-> ret]

Ev(e, k, i) == [ev |-> e, key |-> k, inst |-> i]

\* the trace of collaborator calls made during the current operation
Emit(n, e) == [n EXCEPT !.log = Append(@, e)]

B2N(b) == IF b THEN 1 ELSE 0

(***************************************************************************)
(* The Shell and ConnectionInfo collaborators (lisa.util.shell).           *)
(***************************************************************************)
NoConnection == [set |-> FALSE, address |-> "", port |-> 0]

ConnectionInfo(address, port) == [set |-> TRUE, address |-> address, port |-> port]

LocalShell == [kind |-> "local", initialized |-> FALSE, closed |-> FALSE]

SshShell(connection_info) == [kind |-> "ssh", initialized |-> FALSE, closed |-> FALSE]

\* shell.initialize(): a no-op for the local shell, a connect for ssh, which
\* the transport may refuse
ShellInitialize(n, o) ==
    LET n1 == Emit([n EXCEPT !.shell_inits = @ + 1],
                   Ev("shell.initialize", n.shell.kind, 0))
    IN  IF n.shell.kind = "ssh" /\ o.raise = "shell"
        THEN R(n1, "TransportError", 0)
        ELSE R([n1 EXCEPT !.shell.initialized = TRUE], "none", 0)

\* shell.mkdir(path, parents=True, exist_ok=True)
ShellMkdir(n, o) ==
    LET n1 == Emit([n EXCEPT !.mkdirs = @ + 1], Ev("shell.mkdir", n.shell.kind, 0))
    IN  IF o.raise = "mkdir" THEN R(n1, "TransportError", 0) ELSE R(n1, "none", 0)

\* shell.close()
ShellClose(n) ==
    Emit([n EXCEPT !.shell.closed = TRUE], Ev("shell.close", n.shell.kind, 0))

\* Process.start on the node's current shell session
ProcessStart(n, linux) ==
    Emit(n, Ev("process.start", n.shell.kind,
               B2N(n.shell.initialized) + 2 * B2N(linux)))

(***************************************************************************)
(* Node.__init__                                                           *)
(***************************************************************************)
EmptyPath == [flavor |-> "pure", root |-> "", expanded |-> FALSE]

EmptyTools == [k \in {} |-> None]

NewNode(is_remote, has_spec) ==
    [ made |-> TRUE,
      is_remote |-> is_remote,
      has_spec |-> has_spec,
      shell |-> LocalShell,
      kernel_release |-> "",
      operating_system |-> EmptyStr,
      connection_info |-> NoConnection,
      internal_address |-> "",
      internal_port |-> 0,
      working_path |-> EmptyPath,
      tools |-> EmptyTools,
      is_initialized |-> FALSE,
      is_linux |-> TRUE,
      \* bookkeeping of the model: how many instances of each tool were made
      \* (the n-th instance of a tool is identified by n), the calls counted,
      \* and the instance the first successful resolution of a key returned
      made_tools |-> EmptyTools,
      misses |-> 0,
      shell_inits |-> 0,
      probes |-> 0,
      mkdirs |-> 0,
      init_done |-> FALSE,
      triggered |-> FALSE,
      installs |-> EmptyTools,
      returned |-> EmptyTools,
      \* whether lines 217-218 were reached, how deeply the calls on the node
      \* are nested now and were nested at most during the current operation
      classified |-> FALSE,
      depth |-> 0,
      max_depth |-> 0,
      log |-> <<>> ]

\* no Node object exists yet
NoNode == [NewNode(FALSE, FALSE) EXCEPT !.made = FALSE]

(***************************************************************************)
(* Node.create                                                             *)
(***************************************************************************)
create(has_spec, node_type) ==
    IF node_type = ENVIRONMENTS_NODES_REMOTE
    THEN R(NewNode(TRUE, has_spec), "none", 0)
    ELSE IF node_type = ENVIRONMENTS_NODES_LOCAL
    THEN R(NewNode(FALSE, has_spec), "none", 0)
    ELSE R(NoNode, "UnsupportedNodeType", 0)

(***************************************************************************)
(* Node.set_connection_info                                                *)
(***************************************************************************)
\* lines 85-92: the address pair after mirroring, <<address, publicAddress>>
MirrorAddressM(address, publicAddress) ==
    IF address = "" THEN <<publicAddress, publicAddress>>
    ELSE <<address, publicAddress>>

MirrorAddress(address, publicAddress) ==
    IF address = "" THEN <<publicAddress, publicAddress>>
    ELSE IF publicAddress = "" THEN <<address, address>>
    ELSE <<address, publicAddress>>

\* lines 94-99: the port pair after mirroring, <<port, publicPort>>
MirrorPort(port, publicPort) ==
    IF port = 0 THEN <<publicPort, publicPort>>
    ELSE IF publicPort = 0 THEN <<port, port>>
    ELSE <<port, publicPort>>

\* line 80
AlreadySetM(n) == FALSE

AlreadySet(n) == n.connection_info.set

\* lines 85-88 and 94-95
MissingPairM(address, port, publicAddress, publicPort) ==
    address = "" /\ publicAddress = ""

MissingPair(address, port, publicAddress, publicPort) ==
    \/ address = "" /\ publicAddress = ""
    \/ port = 0 /\ publicPort = 0

set_connection_info(n, address, port, publicAddress, publicPort) ==
    IF AlreadySet(n) THEN R(n, "AlreadyConnected", 0)
    ELSE IF MissingPair(address, port, publicAddress, publicPort)
    THEN R(n, "ConfigurationError", 0)
    ELSE LET a == MirrorAddress(address, publicAddress)
             p == MirrorPort(port, publicPort)
             ci == ConnectionInfo(a[2], p[2])
         IN  R([n EXCEPT !.connection_info = ci,
                         !.shell = SshShell(ci),
                         !.internal_address = a[1],
                         !.internal_port = p[1]], "none", 0)

(***************************************************************************)
(* Tools (lisa.executable.Tool and its subclasses).  A request to get_tool *)
(* is a Tool class, a CustomScriptBuilder instance, the CustomScriptBuilder*)
(* class itself, or a bare string.                                         *)
(***************************************************************************)
ToolTypes == {"Uname", "Echo", "Systemctl", "Gcc"}

ScriptNames == {"myscript"}

StringKeys == {"uname", "gcc", "Gcc", "myscript"}

TypeReq(t) == [kind |-> "type", name |-> t]

ScriptReq(s) == [kind |-> "script", name |-> s]

StrReq(k) == [kind |-> "str", name |-> k]

BuilderClassReq == [kind |-> "builder_class", name |-> "CustomScriptBuilder"]

Requests ==
    {TypeReq(t) : t \in ToolTypes} \cup {ScriptReq(s) : s \in ScriptNames}
        \cup {StrReq(k) : k \in StringKeys} \cup {BuilderClassReq}

\* str.lower() of a class name
Lower(name) ==
    CASE name = "Uname" -> "uname"
      [] name = "Echo" -> "echo"
      [] name = "Systemctl" -> "systemctl"
      [] name = "Gcc" -> "gcc"
      [] OTHER -> name

\* Systemctl.can_install is False; of the other classes, the probing tools
\* Uname and Echo cannot be installed and Gcc and custom scripts can
can_install(req) ==
    IF req.kind = "type" /\ req.name = "Systemctl" THEN FALSE
    ELSE req.kind = "script" \/ (req.kind = "type" /\ req.name = "Gcc")

\* dict.get(key)
Lookup(d, key) == IF key \in DOMAIN d THEN d[key] ELSE None

\* d[key] = value
Put(d, key, value) ==
    [k \in DOMAIN d \cup {key} |-> IF k = key THEN value ELSE d[k]]

\* get_tool lines 120-125
ToolKeyM(req) == req.name

ToolKey(req) ==
    IF req.kind = "script" THEN req.name
    ELSE IF req.kind = "str" THEN req.name
    ELSE Lower(req.name)

\* get_tool line 126
CachedToolM(n, key) == None

CachedTool(n, key) == Lookup(n.tools, key)

\* get_tool lines 133 and 141-142: a new tool object
NewTool(n, key) == Lookup(n.made_tools, key) + 1

\* a variant that enters the new tool in the registry at once
InstantiateM(n, key) ==
    Emit([n EXCEPT !.made_tools = Put(@, key, NewTool(n, key)),
                   !.tools = Put(@, key, NewTool(n, key))],
         Ev("instantiate", key, NewTool(n, key)))

Instantiate(n, key) ==
    Emit([n EXCEPT !.made_tools = Put(@, key, NewTool(n, key))],
         Ev("instantiate", key, NewTool(n, key)))

\* get_tool line 162
StoreToolM(n, key, tool) == n

StoreTool(n, key, tool) == [n EXCEPT !.tools = Put(@, key, tool)]

\* get_tool line 163, with the model's record of what was returned
ReturnTool(n, req, key, tool) ==
    LET n1 == Emit(n, Ev("get_tool.return", key, tool))
        n2 == IF key \notin DOMAIN n1.returned /\ req.kind \in {"type", "script"}
              THEN [n1 EXCEPT !.returned = Put(@, key, tool)]
              ELSE n1
    IN  R(n2, "none", tool)

NoRequest == [kind |-> "none", name |-> ""]

\* a call of a method of the node or of one of its tools
RECURSIVE Call(_, _, _, _)

(***************************************************************************)
(* Node.is_linux, Node._execute, Node.executeasync, Node.execute           *)
(***************************************************************************)
is_linux(n, o) ==
    LET r == Call("_initialize", n, NoRequest, o)
    IN  IF r.err # "none" THEN r
        ELSE R(Emit(r.n, Ev("is_linux.read",
                            IF r.n.classified THEN "classified" ELSE "default",
                            B2N(r.n.is_linux))),
               "none", r.n.is_linux)

_execute(n, o) ==
    LET r == Call("is_linux", n, NoRequest, o)
    IN  IF r.err # "none" THEN r ELSE R(ProcessStart(r.n, r.ret), "none", 0)

executeasync(n, o) ==
    LET r == Call("_initialize", n, NoRequest, o)
    IN  IF r.err # "none" THEN r ELSE Call("_execute", r.n, NoRequest, o)

execute(n, o) ==
    LET r == Call("executeasync", n, NoRequest, o)
    IN  IF r.err # "none" THEN r
        ELSE R(Emit(r.n, Ev("process.wait_result", r.n.shell.kind, 0)), "none", 0)

(***************************************************************************)
(* Tool.is_installed and Tool.install: a tool decides these itself; the    *)
(* base Tool asks the node (is_linux, then a command), a stub does not.    *)
(***************************************************************************)
is_installed(n, req, o) ==
    LET key == ToolKey(req)
        n1 == Emit(n, Ev("is_installed", key, 0))
        found == o.absent # key
        answer == Ev("is_installed.result", key, B2N(found))
    IN  IF ~o.viaNode THEN R(Emit(n1, answer), "none", found)
        ELSE LET r1 == Call("is_linux", n1, NoRequest, o)
             IN  IF r1.err # "none" THEN r1
                 ELSE LET r2 == Call("execute", r1.n, NoRequest, o)
                      IN  IF r2.err # "none" THEN r2
                          ELSE R(Emit(r2.n, answer), "none", found)

install(n, req, o) ==
    LET key == ToolKey(req)
        n1 == Emit([n EXCEPT !.installs = Put(@, key, Lookup(@, key) + 1)],
                   Ev("install", key, 0))
    IN  IF ~o.viaNode THEN R(n1, "none", o.installOk)
        ELSE LET r == Call("execute", n1, NoRequest, o)
             IN  IF r.err # "none" THEN r ELSE R(r.n, "none", o.installOk)

(***************************************************************************)
(* Node.get_tool                                                           *)
(***************************************************************************)
get_tool(n, req, o) ==
    IF req.kind = "builder_class" THEN R(n, "InvalidToolRequest", 0)
    ELSE
    LET tool_key == ToolKey(req)
        tool == CachedTool(n, tool_key)
    IN  IF tool # None THEN ReturnTool(n, req, tool_key, tool)
        ELSE IF req.kind = "str" THEN R(n, "UnknownTool", 0)
        ELSE
        LET new == NewTool(n, tool_key)
            n1 == Instantiate(n, tool_key)
            r2 == Call("is_installed", n1, req, o)
        IN  IF r2.err # "none" THEN r2
            ELSE IF r2.ret
            THEN ReturnTool(StoreTool(r2.n, tool_key, new), req, tool_key, new)
            ELSE IF can_install(req)
            THEN LET r3 == Call("install", r2.n, req, o)
                 IN  IF r3.err # "none" THEN r3
                     ELSE IF ~r3.ret THEN R(r3.n, "ToolInstallError", 0)
                     ELSE ReturnTool(StoreTool(r3.n, tool_key, new),
                                     req, tool_key, new)
            ELSE LET r4 == Call("is_linux", r2.n, NoRequest, o)
                 IN  IF r4.err # "none" THEN r4
                     ELSE R(r4.n, "ToolUnsupported", 0)

(***************************************************************************)
(* Node._initialize                                                        *)
(***************************************************************************)
\* Uname.get_linux_information(no_error_log=True): runs uname on the node
get_linux_information(n, o) ==
    LET n1 == Emit([n EXCEPT !.probes = @ + 1], Ev("uname.probe", "uname", 0))
    IN  IF o.raise = "probe" THEN R(n1, "TransportError", o.probe)
        ELSE LET r == Call("execute", n1, NoRequest, o)
             IN  IF r.err # "none" THEN R(r.n, r.err, o.probe)
                 ELSE R(r.n, "none", o.probe)

\* Echo.run(working_path, shell=True)
echo_run(n, o) ==
    LET n1 == Emit(n, Ev("echo.run", "echo", 0))
    IN  IF o.raise = "echorun" THEN R(n1, "TransportError", 0)
        ELSE Call("execute", n1, NoRequest, o)

\* lines 217-218
ClassifyM(n) ==
    IF n.kernel_release = "" THEN [n EXCEPT !.is_linux = FALSE] ELSE n

Classify(n) ==
    IF n.kernel_release = "" \/ ~Contains(Linux, n.operating_system)
    THEN [n EXCEPT !.is_linux = FALSE]
    ELSE n

\* lines 230-252: the working path
SetWorkingPath(n, o) ==
    IF n.is_remote
    THEN IF ~n.connection_info.set THEN R(n, "AssertionError", 0)
         ELSE
         LET r1 == Call("is_linux", n, NoRequest, o)
             root == IF r1.ret THEN "$HOME" ELSE "%TEMP%"
             r2 == Call("get_tool", r1.n, TypeReq("Echo"), o)
         IN  IF r2.err # "none" THEN r2
             ELSE
             LET r3 == Call("echo_run", r2.n, NoRequest, o)
             IN  IF r3.err # "none" THEN r3
                 ELSE
                 LET r4 == Call("is_linux", r3.n, NoRequest, o)
                 IN  R([r4.n EXCEPT !.working_path =
                           [flavor |-> IF r4.ret THEN "posix" ELSE "windows",
                            root |-> root, expanded |-> TRUE]], "none", 0)
    ELSE R([n EXCEPT !.working_path =
               [flavor |-> "local", root |-> "run_local_path",
                expanded |-> FALSE]], "none", 0)

\* a variant that sets the flag only after the bootstrap tool is resolved
InitializeLateFlagM(n, o) ==
    LET r2 == ShellInitialize(n, o)
    IN  IF r2.err # "none" THEN r2
        ELSE
        LET r3 == Call("get_tool", r2.n, TypeReq("Uname"), o)
        IN  IF r3.err # "none" THEN r3
            ELSE R([r3.n EXCEPT !.is_initialized = TRUE, !.init_done = TRUE],
                   "none", 0)

\* a variant that makes the working directory before it opens the shell
InitializeBodyM(n, o) ==
    LET n1 == [n EXCEPT !.is_initialized = TRUE]
        r2 == ShellMkdir(n1, o)
    IN  IF r2.err # "none" THEN r2
        ELSE
        LET r3 == ShellInitialize(r2.n, o)
        IN  IF r3.err # "none" THEN r3
            ELSE R([r3.n EXCEPT !.init_done = TRUE], "none", 0)

\* lines 207-254
InitializeBody(n, o) ==
    LET n1 == [n EXCEPT !.is_initialized = TRUE]
        r2 == ShellInitialize(n1, o)
    IN  IF r2.err # "none" THEN r2
        ELSE
        LET r3 == Call("get_tool", r2.n, TypeReq("Uname"), o)
        IN  IF r3.err # "none" THEN r3
            ELSE
            LET r4 == Call("get_linux_information", r3.n, NoRequest, o)
            IN  IF r4.err # "none" THEN R(r4.n, r4.err, 0)
                ELSE
                LET n4 == Classify([r4.n EXCEPT
                              !.kernel_release = r4.ret.kernel_release,
                              !.operating_system = r4.ret.operating_system])
                    n5 == Emit([n4 EXCEPT !.classified = TRUE],
                               Ev("classify", "node", B2N(n4.is_linux)))
                    r6 == Call("SetWorkingPath",
                               Emit(n5, Ev("working_path", "node", 0)),
                               NoRequest, o)
                IN  IF r6.err # "none" THEN r6
                    ELSE
                    LET r7 == ShellMkdir(r6.n, o)
                    IN  IF r7.err # "none" THEN r7
                        ELSE R([r7.n EXCEPT !.init_done = TRUE], "none", 0)

\* a variant that clears the flag again when a step failed
InitializeRetryM(n, o) ==
    IF ~n.is_initialized
    THEN LET r == Call("InitializeBody", n, NoRequest, o)
         IN  IF r.err # "none"
             THEN R([r.n EXCEPT !.is_initialized = FALSE], r.err, 0)
             ELSE r
    ELSE R(n, "none", 0)

\* lines 204-205
_initialize(n, o) ==
    IF ~n.is_initialized THEN Call("InitializeBody", n, NoRequest, o)
    ELSE R(n, "none", 0)

\* Node.close
close(n) == ShellClose(n)

\* entering and leaving a call
Enter(n) ==
    [n EXCEPT !.depth = @ + 1,
              !.max_depth = IF n.depth + 1 > @ THEN n.depth + 1 ELSE @]

Leave(r) == [r EXCEPT !.n.depth = @ - 1]

Dispatch(method, n, req, o) ==
    CASE method = "_initialize" -> _initialize(n, o)
      [] method = "is_linux" -> is_linux(n, o)
      [] method = "_execute" -> _execute(n, o)
      [] method = "executeasync" -> executeasync(n, o)
      [] method = "execute" -> execute(n, o)
      [] method = "get_tool" -> get_tool(n, req, o)
      [] method = "is_installed" -> is_installed(n, req, o)
      [] method = "install" -> install(n, req, o)
      [] method = "InitializeBody" -> InitializeBody(n, o)
      [] method = "get_linux_information" -> get_linux_information(n, o)
      [] method = "echo_run" -> echo_run(n, o)
      [] method = "SetWorkingPath" -> SetWorkingPath(n, o)

Call(method, n, req, o) ==
    IF n.depth >= MaxDepth THEN R(n, "RecursionError", 0)
    ELSE Leave(Dispatch(method, Enter(n), req, o))

(***************************************************************************)
(* from_config and from_spec.  A descriptor map is a function whose domain *)
(* is the set of keys it holds.                                            *)
(***************************************************************************)
Get(config, key, default) ==
    IF key \in DOMAIN config THEN config[key] ELSE default

\* a variant that hands every type to Node.create
KnownTypeM(node_type) == TRUE

\* lines 286-289
KnownType(node_type) ==
    node_type \in {ENVIRONMENTS_NODES_LOCAL, ENVIRONMENTS_NODES_REMOTE}

\* ret is 1 when a Node is returned and None when None is returned
from_config(config) ==
    IF TYPE \notin DOMAIN config THEN R(NoNode, "ConfigurationError", None)
    ELSE IF KnownType(config[TYPE])
    THEN LET r == create(FALSE, config[TYPE])
         IN  IF r.err # "none" THEN r
             ELSE IF r.n.is_remote
             THEN LET rc == set_connection_info(r.n,
                               Get(config, ENVIRONMENTS_NODES_REMOTE_ADDRESS, ""),
                               Get(config, ENVIRONMENTS_NODES_REMOTE_PORT, DefaultPort),
                               Get(config, ENVIRONMENTS_NODES_REMOTE_PUBLIC_ADDRESS, ""),
                               Get(config, ENVIRONMENTS_NODES_REMOTE_PUBLIC_PORT, DefaultPort))
                  IN  IF rc.err # "none" THEN R(NoNode, rc.err, None)
                      ELSE R(rc.n, "none", 1)
             ELSE R(r.n, "none", 1)
    ELSE R(NoNode, "none", None)

from_spec(node_type) ==
    LET r == create(TRUE, node_type)
    IN  IF r.err # "none" THEN r ELSE R(r.n, "none", 1)

(***************************************************************************)
(* Inputs.                                                                 *)
(***************************************************************************)
Addresses == {"", "10.0.0.5", "52.1.1.1"}

Ports == {0, DefaultPort, 2222}

NodeTypes == {ENVIRONMENTS_NODES_LOCAL, ENVIRONMENTS_NODES_REMOTE, "docker"}

MkConfig(keys, t, a, p, pa, pp) ==
    [k \in keys |->
        CASE k = TYPE -> t
          [] k = ENVIRONMENTS_NODES_REMOTE_ADDRESS -> a
          [] k = ENVIRONMENTS_NODES_REMOTE_PORT -> p
          [] k = ENVIRONMENTS_NODES_REMOTE_PUBLIC_ADDRESS -> pa
          [] k = ENVIRONMENTS_NODES_REMOTE_PUBLIC_PORT -> pp
          [] OTHER -> "ignored"]

ConfigKeys ==
    {TYPE, ENVIRONMENTS_NODES_REMOTE_ADDRESS, ENVIRONMENTS_NODES_REMOTE_PORT,
     ENVIRONMENTS_NODES_REMOTE_PUBLIC_ADDRESS,
     ENVIRONMENTS_NODES_REMOTE_PUBLIC_PORT, "name"}

\* every descriptor map over the keys above
Configs ==
    {MkConfig(keys, t, a, p, pa, pp) :
        keys \in SUBSET ConfigKeys, t \in NodeTypes,
        a \in {"", "10.0.0.5"}, p \in {0, 2222},
        pa \in {"", "52.1.1.1"}, pp \in {0, 2222}}

\* a local node, a remote node with an address, and two maps that are refused
FewConfigs ==
    { MkConfig({TYPE}, ENVIRONMENTS_NODES_LOCAL, "", 0, "", 0),
      MkConfig({TYPE, ENVIRONMENTS_NODES_REMOTE_ADDRESS},
               ENVIRONMENTS_NODES_REMOTE, "10.0.0.5", 0, "", 0),
      MkConfig({TYPE}, ENVIRONMENTS_NODES_REMOTE, "", 0, "", 0),
      MkConfig({"name"}, "", "", 0, "", 0) }

\* what the node's surroundings do during one operation: which collaborator
\* call raises a transport error, which command is absent from the machine,
\* what uname reports, whether install() succeeds and whether the tools'
\* own probes and installs run through the node
LinuxProbe == [kernel_release |-> "5.15.0", operating_system |-> GnuLinux]

EmptyProbe == [kernel_release |-> "", operating_system |-> EmptyStr]

ProbeResults ==
    { LinuxProbe, EmptyProbe,
      [kernel_release |-> "10.0.19045", operating_system |-> Msys],
      [kernel_release |-> "", operating_system |-> GnuLinux] }

Outcome(raise, absent, probe, installOk, viaNode) ==
    [raise |-> raise, absent |-> absent, probe |-> probe,
     installOk |-> installOk, viaNode |-> viaNode]

WideEnv ==
    [raises |-> {"none", "shell", "probe", "echorun", "mkdir"},
     absents |-> {"none", "uname", "echo", "systemctl", "gcc", "myscript"},
     probes |-> ProbeResults, via |-> BOOLEAN]

\* the shell may refuse the connection, a command may be absent
MidEnv ==
    [raises |-> {"none", "shell"},
     absents |-> {"none", "uname", "systemctl", "gcc", "myscript"},
     probes |-> {LinuxProbe, EmptyProbe}, via |-> BOOLEAN]

\* the shell may refuse the connection
NarrowEnv ==
    [raises |-> {"none", "shell"}, absents |-> {"none"},
     probes |-> {LinuxProbe}, via |-> {FALSE}]

\* the outcomes of env that can make a difference to an operation on n for req
Outcomes(n, req, env) ==
    LET initRuns == ~n.is_initialized
        key == ToolKey(req)
        resolves == req.kind \in {"type", "script"} /\ Lookup(n.tools, key) = None
        raises == IF initRuns THEN env.raises ELSE {"none"}
        absents == env.absents \cap
                     ({"none"} \cup (IF resolves THEN {key} ELSE {})
                               \cup (IF initRuns THEN {"uname", "echo"} ELSE {}))
        probes == IF initRuns THEN env.probes ELSE {LinuxProbe}
        installOks == IF resolves /\ can_install(req) THEN BOOLEAN ELSE {TRUE}
        vias == IF resolves \/ initRuns THEN env.via ELSE {FALSE}
    IN  { o \in { Outcome(r, a, p, i, v) :
                    r \in raises, a \in absents, p \in probes,
                    i \in installOks, v \in vias } :
            \* one representative of the outcomes that differ in nothing used
            /\ (o.raise \in {"shell", "probe"} => o.probe = LinuxProbe)
            /\ (o.absent # key => o.installOk) }

NoArgs == [address |-> "", port |-> 0, publicAddress |-> "", publicPort |-> 0]

NoConfig == [k \in {} |-> ""]

Forget(n) == [n EXCEPT !.log = <<>>, !.max_depth = 0]

Last(op, req, args, config, r, pre) ==
    [op |-> op, req |-> req, args |-> args, config |-> config,
     err |-> r.err, ret |-> r.ret, pre |-> Forget(pre)]

(***************************************************************************)
(* The operations on one Node from a single execution context.             *)
(***************************************************************************)
IdleContexts ==
    [c \in 1..NumContexts |->
        [pc |-> "idle", req |-> NoRequest, tool |-> None, absent |-> FALSE,
         ret |-> None, err |-> "none"]]

Init ==
    /\ node = NoNode
    /\ last = Last("none", NoRequest, NoArgs, NoConfig, R(NoNode, "none", 0), NoNode)
    /\ ctx = IdleContexts
    /\ machine = {}

FromConfig(configs) ==
    /\ ~node.made
    /\ \E config \in configs :
        LET r == from_config(config)
        IN  /\ node' = r.n
            /\ last' = Last("from_config", NoRequest, NoArgs, config, r, node)
    /\ UNCHANGED <<ctx, machine>>

FromSpec(types) ==
    /\ ~node.made
    /\ \E node_type \in types :
        LET r == from_spec(node_type)
        IN  /\ node' = r.n
            /\ last' = Last("from_spec", NoRequest, NoArgs, NoConfig, r, node)
    /\ UNCHANGED <<ctx, machine>>

SetConnectionInfo(addresses, ports) ==
    /\ node.made
    /\ \E address \in addresses, port \in ports,
          publicAddress \in addresses, publicPort \in ports :
        LET r == set_connection_info(Forget(node), address, port,
                                     publicAddress, publicPort)
        IN  /\ node' = r.n
            /\ last' = Last("set_connection_info", NoRequest,
                            [address |-> address, port |-> port,
                             publicAddress |-> publicAddress,
                             publicPort |-> publicPort], NoConfig, r, node)
    /\ UNCHANGED <<ctx, machine>>

\* a get_tool that has to make a new tool counts against MaxMisses
Missed(n, req) ==
    IF req.kind \in {"type", "script"} /\ Lookup(n.tools, ToolKey(req)) = None
    THEN [n EXCEPT !.misses = @ + 1]
    ELSE n

GetTool(requests, env) ==
    /\ node.made
    /\ \E req \in requests :
        /\ Missed(node, req).misses <= MaxMisses
        /\ \E o \in Outcomes(node, req, env) :
            LET r == Call("get_tool", Missed(Forget(node), req), req, o)
            IN  /\ node' = r.n
                /\ last' = Last("get_tool", req, NoArgs, NoConfig, r, node)
    /\ UNCHANGED <<ctx, machine>>

Triggered(n) == [n EXCEPT !.triggered = TRUE]

Execute(env) ==
    /\ node.made
    /\ \E o \in Outcomes(node, NoRequest, env) :
        LET r == Call("execute", Forget(node), NoRequest, o)
        IN  /\ node' = Triggered(r.n)
            /\ last' = Last("execute", NoRequest, NoArgs, NoConfig, r, node)
    /\ UNCHANGED <<ctx, machine>>

ExecuteAsync(env) ==
    /\ node.made
    /\ \E o \in Outcomes(node, NoRequest, env) :
        LET r == Call("executeasync", Forget(node), NoRequest, o)
        IN  /\ node' = Triggered(r.n)
            /\ last' = Last("executeasync", NoRequest, NoArgs, NoConfig, r, node)
    /\ UNCHANGED <<ctx, machine>>

IsLinux(env) ==
    /\ node.made
    /\ \E o \in Outcomes(node, NoRequest, env) :
        LET r == Call("is_linux", Forget(node), NoRequest, o)
        IN  /\ node' = Triggered(r.n)
            /\ last' = Last("is_linux", NoRequest, NoArgs, NoConfig,
                            R(r.n, r.err, B2N(r.err = "none" /\ r.ret = TRUE)), node)
    /\ UNCHANGED <<ctx, machine>>

Close ==
    /\ node.made
    /\ node' = close(Forget(node))
    /\ last' = Last("close", NoRequest, NoArgs, NoConfig, R(node, "none", 0), node)
    /\ UNCHANGED <<ctx, machine>>

(***************************************************************************)
(* Spec: the life of a Node, with every outcome of its initialization.     *)
(***************************************************************************)
FewRequests == {TypeReq("Uname"), TypeReq("Systemctl"), StrReq("uname")}

Next ==
    \/ FromConfig(FewConfigs)
    \/ FromSpec({ENVIRONMENTS_NODES_LOCAL, ENVIRONMENTS_NODES_REMOTE})
    \/ SetConnectionInfo({"", "10.0.0.5"}, {DefaultPort})
    \/ GetTool(FewRequests, WideEnv)
    \/ Execute(WideEnv)
    \/ ExecuteAsync(WideEnv)
    \/ IsLinux(WideEnv)
    \/ Close

Spec == Init /\ [][Next]_vars

(***************************************************************************)
(* SpecConn: the factories and the connection descriptor, with every       *)
(* descriptor map and every argument of set_connection_info.               *)
(***************************************************************************)
NextConn ==
    \/ FromConfig(Configs)
    \/ FromSpec(NodeTypes)
    \/ SetConnectionInfo(Addresses, Ports)
    \/ Execute(NarrowEnv)

SpecConn == Init /\ [][NextConn]_vars

(***************************************************************************)
(* SpecTools: the tool registry, with every request to get_tool.           *)
(***************************************************************************)
NextTools ==
    \/ FromConfig(FewConfigs)
    \/ GetTool(Requests, MidEnv)
    \/ IsLinux(MidEnv)

SpecTools == Init /\ [][NextTools]_vars

(***************************************************************************)
(* SpecConc: get_tool issued by several execution contexts on one Node     *)
(* whose initialization has completed.  A context may be suspended between *)
(* the registry lookup (line 126), the is_installed probe (line 144), the  *)
(* install (line 149) and the registry store (line 162): the probe and the *)
(* install run commands on the node and block.  machine is the set of      *)
(* commands present on the node's machine.                                 *)
(***************************************************************************)
ReadyNode ==
    Forget(Triggered(
        Call("execute",
             from_config(MkConfig({TYPE}, ENVIRONMENTS_NODES_LOCAL, "", 0, "", 0)).n,
             NoRequest, Outcome("none", "none", LinuxProbe, TRUE, TRUE)).n))

ConcRequests == {TypeReq("Gcc"), TypeReq("Systemctl"), StrReq("gcc")}

InitConc ==
    /\ node = ReadyNode
    /\ last = Last("none", NoRequest, NoArgs, NoConfig, R(NoNode, "none", 0), NoNode)
    /\ ctx = IdleContexts
    /\ machine = {"uname", "echo"}

Finish(c, err, ret) ==
    [ctx EXCEPT ![c].pc = "done", ![c].err = err, ![c].ret = ret]

\* the call is made
CallGetTool(c) ==
    /\ ctx[c].pc = "idle"
    /\ \E req \in ConcRequests : ctx' = [ctx EXCEPT ![c].pc = "lookup", ![c].req = req]
    /\ UNCHANGED <<node, last, machine>>

\* lines 118-142: the key, the registry lookup and, on a miss, the new tool
LookupStep(c) ==
    /\ ctx[c].pc = "lookup"
    /\ LET req == ctx[c].req
           tool_key == ToolKey(req)
           tool == CachedTool(node, tool_key)
       IN  IF tool # None
           THEN /\ ctx' = Finish(c, "none", tool)
                /\ node' = node
           ELSE IF req.kind = "str"
           THEN /\ ctx' = Finish(c, "UnknownTool", None)
                /\ node' = node
           ELSE /\ ctx' = [ctx EXCEPT ![c].pc = "probe",
                                      ![c].tool = NewTool(node, tool_key)]
                /\ node' = Forget(Instantiate(node, tool_key))
    /\ UNCHANGED <<last, machine>>

\* lines 144-159: is_installed, can_install
ProbeStep(c) ==
    /\ ctx[c].pc = "probe"
    /\ IF ToolKey(ctx[c].req) \in machine
       THEN ctx' = [ctx EXCEPT ![c].pc = "store"]
       ELSE IF can_install(ctx[c].req)
       THEN ctx' = [ctx EXCEPT ![c].pc = "install", ![c].absent = TRUE]
       ELSE ctx' = [Finish(c, "ToolUnsupported", None) EXCEPT ![c].absent = TRUE]
    /\ UNCHANGED <<node, last, machine>>

\* lines 148-152: install(), which may fail
InstallStep(c) ==
    /\ ctx[c].pc = "install"
    /\ LET tool_key == ToolKey(ctx[c].req)
       IN  /\ node' = [node EXCEPT
                         !.installs = Put(@, tool_key, Lookup(@, tool_key) + 1)]
           /\ \E is_success \in BOOLEAN :
                IF is_success
                THEN /\ machine' = machine \cup {tool_key}
                     /\ ctx' = [ctx EXCEPT ![c].pc = "store"]
                ELSE /\ machine' = machine
                     /\ ctx' = Finish(c, "ToolInstallError", None)
    /\ UNCHANGED last

\* lines 162-163
StoreStep(c) ==
    /\ ctx[c].pc = "store"
    /\ node' = StoreTool(node, ToolKey(ctx[c].req), ctx[c].tool)
    /\ ctx' = Finish(c, "none", ctx[c].tool)
    /\ UNCHANGED <<last, machine>>

NextConc ==
    \E c \in 1..NumContexts :
        \/ CallGetTool(c)
        \/ LookupStep(c)
        \/ ProbeStep(c)
        \/ InstallStep(c)
        \/ StoreStep(c)

SpecConc == InitConc /\ [][NextConc]_vars

(***************************************************************************)
(* Properties.                                                             *)
(***************************************************************************)
TriggerOps == {"execute", "executeasync", "is_linux"}

\* the operation just made is at least the second trigger of initialization
SecondTrigger == last.op \in TriggerOps /\ last.pre.triggered

HasEvent(log, e, key) == \E i \in 1..Len(log) : log[i].ev = e /\ log[i].key = key

\* C1 as claimed: after N>1 triggers on one Node shell.initialize, the uname
\* probe and shell.mkdir were each called exactly once.
C1_ExactlyOnceEach ==
    SecondTrigger =>
        node.shell_inits = 1 /\ node.probes = 1 /\ node.mkdirs = 1

\* C1 as amended: after N>1 triggers shell.initialize was called exactly once,
\* the uname probe and shell.mkdir at most once each, and exactly once each
\* when the initialization ran to its end.
C1_InitializedOnce ==
    SecondTrigger =>
        /\ node.shell_inits = 1
        /\ node.probes <= 1
        /\ node.mkdirs <= 1
        /\ (node.init_done => node.probes = 1 /\ node.mkdirs = 1)

C1_Witness ==
    /\ SecondTrigger
    /\ node.init_done
    /\ node.shell.kind = "ssh"
    /\ node.shell_inits = 1 /\ node.probes = 1 /\ node.mkdirs = 1

\* the operation just made is a get_tool by type, script or string
Resolved == last.op = "get_tool" /\ last.req.kind \in {"type", "script", "str"}

\* C2 as claimed: once get_tool has returned successfully for a key, a later
\* get_tool with that key returns the very same instance and neither
\* instantiates the tool, nor asks is_installed, nor calls install.
C2_Memoized ==
    (Resolved /\ ToolKey(last.req) \in DOMAIN last.pre.returned) =>
        /\ last.err = "none"
        /\ last.ret = last.pre.returned[ToolKey(last.req)]
        /\ ~HasEvent(node.log, "instantiate", ToolKey(last.req))
        /\ ~HasEvent(node.log, "is_installed", ToolKey(last.req))
        /\ ~HasEvent(node.log, "install", ToolKey(last.req))

\* C3 as claimed: when all the contexts have concurrently asked get_tool for
\* the installable Gcc, each finding it neither cached nor installed, and have
\* all got a tool, install ran exactly once in total and the registry holds
\* one instance, which every caller received.
C3_OneInstall ==
    (\A c \in 1..NumContexts :
        /\ ctx[c].pc = "done"
        /\ ctx[c].req = TypeReq("Gcc")
        /\ ctx[c].absent
        /\ ctx[c].err = "none") =>
        /\ Lookup(node.installs, "gcc") = 1
        /\ \A c \in 1..NumContexts : ctx[c].ret = CachedTool(node, "gcc")

\* the get_tool just made found its tool neither cached nor installed, and
\* the tool cannot be installed
NotInstallable ==
    /\ last.op = "get_tool"
    /\ last.req.kind \in {"type", "script"}
    /\ ToolKey(last.req) \notin DOMAIN last.pre.tools
    /\ HasEvent(node.log, "is_installed.result", ToolKey(last.req))
    /\ \A i \in 1..Len(node.log) :
          (node.log[i].ev = "is_installed.result"
              /\ node.log[i].key = ToolKey(last.req)) => node.log[i].inst = 0
    /\ ~can_install(last.req)

\* C4 as claimed: a get_tool of a tool that is not cached, not installed and
\* not installable fails with the tool-unsupported error, never calls install
\* and leaves the registry as it was, without an entry for the key.
C4_Unsupported ==
    NotInstallable =>
        /\ last.err = "ToolUnsupported"
        /\ ~HasEvent(node.log, "install", ToolKey(last.req))
        /\ ToolKey(last.req) \notin DOMAIN node.tools
        /\ node.tools = last.pre.tools

\* C4 as amended: such a get_tool fails, never calls install and caches
\* nothing under the key; the entries cached before are kept, and the only
\* entries added are the bootstrap tools of an initialization the call itself
\* started.  On a Node that was initialized before the call the error is the
\* tool-unsupported error and the registry is unchanged; otherwise the error
\* is the tool-unsupported error unless that initialization failed.
C4_UnsupportedNotCached ==
    NotInstallable =>
        /\ last.err # "none"
        /\ ~HasEvent(node.log, "install", ToolKey(last.req))
        /\ ToolKey(last.req) \notin DOMAIN node.tools
        /\ \A k \in DOMAIN last.pre.tools :
              k \in DOMAIN node.tools /\ node.tools[k] = last.pre.tools[k]
        /\ (DOMAIN node.tools \ DOMAIN last.pre.tools) \subseteq {"uname", "echo"}
        /\ last.pre.is_initialized =>
              last.err = "ToolUnsupported" /\ node.tools = last.pre.tools
        /\ last.err = "ToolUnsupported" \/ ~node.init_done

C4_Witness ==
    /\ NotInstallable
    /\ last.req = TypeReq("Systemctl")
    /\ last.err = "ToolUnsupported"
    /\ ~last.pre.is_initialized
    /\ "uname" \in DOMAIN node.tools
    /\ "uname" \notin DOMAIN last.pre.tools

\* C5 as claimed: over any sequence of get_tool calls on one Node install is
\* attempted at most once per key, and a key whose resolution ended in a
\* failed install or in a not-installable outcome is not probed again.
C5_InstallAtMostOnce ==
    /\ \A k \in DOMAIN node.installs : node.installs[k] <= 1
    /\ (Resolved /\ Lookup(last.pre.installs, ToolKey(last.req)) >= 1) =>
          /\ ~HasEvent(node.log, "is_installed", ToolKey(last.req))
          /\ ~HasEvent(node.log, "install", ToolKey(last.req))

\* set_connection_info was just called on a Node without connection info
Attaching == last.op = "set_connection_info" /\ ~last.pre.connection_info.set

\* an address and a port are each given at least once
PairsGiven ==
    /\ last.args.address # "" \/ last.args.publicAddress # ""
    /\ last.args.port # 0 \/ last.args.publicPort # 0

\* C6: on a Node without connection info set_connection_info succeeds whenever
\* one of address/publicAddress is non-empty and one of port/publicPort is
\* non-zero; afterwards the internal and the public address and port are all
\* populated, a given value is kept, and a pair of which one member was given
\* has two equal members.
C6_BothPopulated ==
    (Attaching /\ PairsGiven) =>
        /\ last.err = "none"
        /\ node.connection_info.set
        /\ node.shell.kind = "ssh"
        /\ node.internal_address # "" /\ node.connection_info.address # ""
        /\ node.internal_port # 0 /\ node.connection_info.port # 0
        /\ last.args.address # "" => node.internal_address = last.args.address
        /\ last.args.publicAddress # "" =>
              node.connection_info.address = last.args.publicAddress
        /\ last.args.port # 0 => node.internal_port = last.args.port
        /\ last.args.publicPort # 0 =>
              node.connection_info.port = last.args.publicPort
        /\ (last.args.address = "" \/ last.args.publicAddress = "") =>
              node.internal_address = node.connection_info.address
        /\ (last.args.port = 0 \/ last.args.publicPort = 0) =>
              node.internal_port = node.connection_info.port

C6_Witness ==
    /\ Attaching
    /\ last.args.address # "" /\ last.args.publicAddress = ""
    /\ last.args.port = 0 /\ last.args.publicPort # 0
    /\ last.err = "none"
    /\ node.connection_info.address = last.args.address
    /\ node.internal_port = last.args.publicPort

\* C7: on a Node without connection info set_connection_info fails with a
\* configuration error whenever address and publicAddress are both empty or
\* port and publicPort are both zero; nothing is attached and the shell stays
\* the local one it was.
C7_MissingPairRejected ==
    (Attaching /\ ~PairsGiven) =>
        /\ last.err = "ConfigurationError"
        /\ ~node.connection_info.set
        /\ node.connection_info = last.pre.connection_info
        /\ node.shell = last.pre.shell
        /\ node.shell.kind = "local"
        /\ node.internal_address = last.pre.internal_address
        /\ node.internal_port = last.pre.internal_port

C7_Witness ==
    /\ Attaching
    /\ last.args.address # "" /\ last.args.port = 0 /\ last.args.publicPort = 0
    /\ last.err = "ConfigurationError"
    /\ node.shell.kind = "local"

\* C8: once connection info is attached, every later set_connection_info, with
\* any arguments, fails with the already-connected error and leaves the
\* connection info, the shell and the internal address and port unchanged.
C8_AttachOnce ==
    (last.op = "set_connection_info" /\ last.pre.connection_info.set) =>
        /\ last.err = "AlreadyConnected"
        /\ node.connection_info = last.pre.connection_info
        /\ node.shell = last.pre.shell
        /\ node.internal_address = last.pre.internal_address
        /\ node.internal_port = last.pre.internal_port

C8_Witness ==
    /\ last.op = "set_connection_info"
    /\ last.pre.connection_info.set
    /\ PairsGiven
    /\ last.args.publicAddress # last.pre.connection_info.address
    /\ last.err = "AlreadyConnected"

\* C9 as claimed: from_config fails with a configuration error for every
\* config whose type is missing or is neither local nor remote.
C9_UnknownTypeRejected ==
    (/\ last.op = "from_config"
     /\ \/ TYPE \notin DOMAIN last.config
        \/ last.config[TYPE] \notin {ENVIRONMENTS_NODES_LOCAL,
                                     ENVIRONMENTS_NODES_REMOTE}) =>
        last.err = "ConfigurationError"

\* C9 as amended: from_config fails with a configuration error when the type
\* is missing; for a type that is neither local nor remote it returns
\* normally, with no Node; in both cases no Node is made.
C9_MissingTypeRejected ==
    last.op = "from_config" =>
        /\ TYPE \notin DOMAIN last.config =>
              last.err = "ConfigurationError" /\ ~node.made
        /\ (/\ TYPE \in DOMAIN last.config
            /\ last.config[TYPE] \notin {ENVIRONMENTS_NODES_LOCAL,
                                         ENVIRONMENTS_NODES_REMOTE}) =>
              last.err = "none" /\ last.ret = None /\ ~node.made

C9_Witness ==
    /\ last.op = "from_config"
    /\ TYPE \in DOMAIN last.config
    /\ last.config[TYPE] = "docker"
    /\ ENVIRONMENTS_NODES_REMOTE_ADDRESS \in DOMAIN last.config
    /\ last.err = "none"
    /\ last.ret = None
    /\ ~node.made

\* get_tool was just called with a bare string
ByString == last.op = "get_tool" /\ last.req.kind = "str"

\* C10: get_tool with a bare string fails with the unknown-tool error and
\* leaves the registry unchanged whenever nothing is cached under that key; it
\* succeeds exactly when a get_tool by type or by script has returned a tool
\* under the same key before, and then returns the cached instance.  A tool
\* got by type is kept under its lower-cased type name, a script under its
\* name.
C10_StringKeyLookup ==
    /\ ByString =>
        /\ last.req.name \notin DOMAIN last.pre.tools =>
              last.err = "UnknownTool" /\ node.tools = last.pre.tools
        /\ last.err = "none" <=> last.req.name \in DOMAIN last.pre.returned
        /\ last.err = "none" =>
              /\ last.ret = last.pre.tools[last.req.name]
              /\ node.tools = last.pre.tools
    /\ (last.op = "get_tool" /\ last.req.kind = "type" /\ last.err = "none") =>
        /\ Lower(last.req.name) \in DOMAIN node.returned
        /\ CachedTool(node, Lower(last.req.name)) = last.ret
    /\ (last.op = "get_tool" /\ last.req.kind = "script" /\ last.err = "none") =>
        /\ last.req.name \in DOMAIN node.returned
        /\ CachedTool(node, last.req.name) = last.ret

C10_Witness ==
    /\ ByString
    /\ last.req.name = "myscript"
    /\ last.err = "none"
    /\ last.ret = last.pre.tools["myscript"]

C10_WitnessUnknown ==
    /\ ByString
    /\ last.req.name = "Gcc"
    /\ "gcc" \in DOMAIN last.pre.tools
    /\ last.err = "UnknownTool"

\* the fields of the Node object, without the bookkeeping of the model
NodeFields(n) ==
    [is_remote |-> n.is_remote, shell |-> n.shell,
     kernel_release |-> n.kernel_release,
     operating_system |-> n.operating_system,
     connection_info |-> n.connection_info,
     internal_address |-> n.internal_address,
     internal_port |-> n.internal_port,
     working_path |-> n.working_path, tools |-> n.tools,
     is_initialized |-> n.is_initialized, is_linux |-> n.is_linux]

\* the get_tool just made failed on install() or on a tool that cannot be
\* installed
FailedResolution ==
    /\ last.op = "get_tool"
    /\ last.req.kind \in {"type", "script"}
    /\ last.err \in {"ToolInstallError", "ToolUnsupported"}

Positions(e) == {i \in 1..Len(node.log) : node.log[i].ev = e}

\* C12: once the bootstrap probe has returned, the Node is classified Linux
\* exactly when the probed kernel release is not empty and the probed
\* operating system contains "Linux"; every other probe result, the empty one
\* included, classifies it non-Linux, and the initialization goes on to the
\* working path without raising.
C12_LinuxIff ==
    /\ node.classified =>
          (node.is_linux <=>
              (node.kernel_release # ""
                  /\ \E i \in 1..(Len(node.operating_system) - 4) :
                        /\ node.operating_system[i] = "L"
                        /\ node.operating_system[i + 1] = "i"
                        /\ node.operating_system[i + 2] = "n"
                        /\ node.operating_system[i + 3] = "u"
                        /\ node.operating_system[i + 4] = "x"))
    /\ ~node.classified => node.is_linux
    /\ \A i \in Positions("classify") :
          /\ node.log[i].inst = B2N(node.is_linux)
          /\ i < Len(node.log)
          /\ node.log[i + 1].ev = "working_path"

C12_Witness ==
    /\ node.classified
    /\ ~node.is_linux
    /\ node.kernel_release # ""
    /\ node.init_done
    /\ Positions("classify") # {}

C12_WitnessEmpty ==
    /\ node.classified
    /\ ~node.is_linux
    /\ node.kernel_release = ""
    /\ node.operating_system = EmptyStr
    /\ node.init_done

\* C13: the flag is set before any initialization work and is never cleared;
\* whatever step failed, every later execute, executeasync or read of
\* is_linux opens no shell, runs no bootstrap probe and makes no directory.
C13_NeverRetried ==
    /\ node.shell_inits > 0 => node.is_initialized
    /\ (node.made /\ last.pre.made /\ last.pre.is_initialized) =>
          node.is_initialized
    /\ (last.op \in TriggerOps /\ last.pre.is_initialized) =>
          /\ Positions("shell.initialize") = {}
          /\ Positions("uname.probe") = {}
          /\ Positions("shell.mkdir") = {}
          /\ node.shell_inits = last.pre.shell_inits
          /\ node.probes = last.pre.probes
          /\ node.mkdirs = last.pre.mkdirs
    /\ (last.op \in TriggerOps /\ last.err # "none") => node.is_initialized

\* a trigger made after an initialization that failed at the bootstrap probe
C13_Witness ==
    /\ last.op \in TriggerOps
    /\ last.pre.is_initialized
    /\ ~last.pre.init_done
    /\ last.pre.probes = 1
    /\ node.probes = 1
    /\ node.mkdirs = 0
    /\ last.err = "none"

\* C14 as claimed: a set_connection_info made after the initialization of
\* the Node has started is rejected and does not replace the shell.
C14_AttachOnlyWhenCreated ==
    (last.op = "set_connection_info" /\ last.pre.is_initialized) =>
        /\ last.err # "none"
        /\ node.shell = last.pre.shell

\* C15 as claimed: every value is_linux returns, to a caller of the Node or
\* to a tool during the initialization, is the classification computed from
\* the bootstrap probe and never the default the Node was constructed with.
C15_ClassifiedBeforeRead ==
    /\ \A i \in Positions("is_linux.read") : node.log[i].key = "classified"
    /\ (last.op = "is_linux" /\ last.err = "none") => node.classified

\* the steps of _initialize in the order of the code
InitSteps ==
    <<"shell.initialize", "uname.probe", "classify", "working_path",
      "shell.mkdir">>

\* the steps of _initialize made during the current operation, in the order
\* in which they were made
StepsMade ==
    SelectSeq(node.log,
              LAMBDA e : \E k \in 1..Len(InitSteps) : e.ev = InitSteps[k])

\* C16: the steps of an initialization are made in the order shell.initialize,
\* Uname resolution and bootstrap probe, classification, working path (with
\* the Echo tool on a remote node), shell.mkdir, each after the one before it
\* has finished; a step that fails keeps every later step from being made.
C16_StepOrder ==
    /\ Len(StepsMade) <= Len(InitSteps)
    /\ \A k \in 1..Len(StepsMade) : StepsMade[k].ev = InitSteps[k]
    /\ (Positions("shell.initialize") # {} /\ last.err = "none") =>
          Len(StepsMade) = Len(InitSteps) /\ node.init_done
    /\ (StepsMade # <<>> /\ Len(StepsMade) < Len(InitSteps)) =>
          last.err # "none" /\ ~node.init_done
    /\ \A i \in Positions("uname.probe") :
          \E j \in Positions("get_tool.return") :
              /\ node.log[j].key = "uname"
              /\ j < i
              /\ \A h \in Positions("shell.initialize") : h < j
    /\ \A i \in Positions("echo.run") :
          /\ node.is_remote
          /\ \A j \in Positions("working_path") : j < i
          /\ \A j \in Positions("shell.mkdir") : i < j
          /\ \E j \in Positions("get_tool.return") :
                node.log[j].key = "echo" /\ j < i
    /\ (node.is_remote /\ Positions("shell.mkdir") # {}) =>
          Positions("echo.run") # {}

\* a remote node whose initialization failed at the Echo expansion
C16_Witness ==
    /\ node.is_remote
    /\ Len(StepsMade) = 4
    /\ Positions("echo.run") # {}
    /\ last.err = "TransportError"
    /\ ~node.init_done

\* C17: the recursion between _initialize and get_tool ends.  Whatever
\* operation first triggers the initialization, and although the probes of
\* the bootstrap tools call execute and is_linux on the same Node, the body of
\* _initialize is entered at most once, the calls are nested at most 14 deep,
\* far from the recursion limit, and when the operation is over every call
\* has returned or raised.
C17_RecursionEnds ==
    /\ node.depth = 0
    /\ node.max_depth <= 14
    /\ last.err # "RecursionError"
    /\ node.shell_inits <= 1
    /\ \A i, j \in Positions("shell.initialize") : i = j

\* an initialization of a remote node, started by get_tool, whose tools all
\* went through the node
C17_Witness ==
    /\ last.op = "get_tool"
    /\ ~last.pre.is_initialized
    /\ node.init_done
    /\ node.is_remote
    /\ node.max_depth >= 12
    /\ node.depth = 0
    /\ \E i \in Positions("is_linux.read") : node.log[i].key = "default"

\* C18 as claimed: close() takes effect only on a Node whose initialization
\* has completed; on a Node that is still Created or Initializing it does not
\* touch the shell.
C18_CloseOnlyWhenReady ==
    (last.op = "close" /\ ~last.pre.init_done) =>
        /\ Positions("shell.close") = {}
        /\ node.shell = last.pre.shell

\* C19 as claimed: no command is started on a shell on which shell.initialize
\* has not completed successfully before.
C19_StartOnlyOnOpenShell ==
    \A i \in Positions("process.start") : node.log[i].inst % 2 = 1

\* C20 as claimed: the initialization of a Node made by from_config or
\* from_spec never fails on the assertion that a remote Node has connection
\* info.
C20_DescriptorAsserted ==
    last.err # "AssertionError"

====
